---- MODULE Spec2Model ----
(***************************************************************************)
(* A model of the on-disk B+Tree index of src/src/lib.rs: the data file,   *)
(* its write-ahead log (WAL), and the BTree<K,V> handle with its overlay   *)
(* (mem_tree).  K and V are String, the types of tests::insert_new_str;    *)
(* files are sequences of bytes, and records are encoded as the bincode    *)
(* codec (rustc_serialize flavour, big endian) encodes them.               *)
(***************************************************************************)
EXTENDS Integers, Sequences, FiniteSets, TLC

\* ------------------------------------------------------------------ bounds

\* longest key or value string an insert is called with
MaxStrLen == 2
\* number of records inserts may write to one WAL file
MaxInserts == 3
\* number of WAL writes that may fail with an I/O error
MaxFaults == 1
\* number of successful inserts through two handles that share a path
MaxShared == 2

\* the bytes keys and values are made of: NUL, so that a string's content
\* looks like the padding of a record
Alphabet == {0}

\* the (max_key_size, max_value_size) pairs callers pass to new
SizePairs == {<<9, 9>>, <<8, 9>>, <<1, 1>>}

\* the BTree handles of the model; the single-handle specifications use 1
Instances == {1, 2}

\* ------------------------------------------------------- program constants

NUM_CHILDREN == 32
FILE_HEADER == <<66, 43, 84, 114, 101, 101, 0>>
CURRENT_VERSION == 1
SizeOfU64 == 8

\* ------------------------------------------------------------ byte helpers

Zeros(n) == [i \in 1..n |-> 0]

Max(a, b) == IF a >= b THEN a ELSE b

Strings == UNION {[1..n -> Alphabet] : n \in 0..MaxStrLen}

Range(s) == {s[i] : i \in DOMAIN s}

\* Option<T>: None is the empty sequence, Some(x) the sequence of x alone
None == <<>>
Some(x) == <<x>>

\* ------------------------------------------------------------------- codec
\* bincode writes u64 and usize as 8 bytes and u32 as 4, big endian.  Every
\* number the model encodes is below 2^24, so the high bytes are 0.

U64BE(n) == <<0, 0, 0, 0, 0, (n \div 65536) % 256, (n \div 256) % 256, n % 256>>

U32BE(n) == <<0, (n \div 65536) % 256, (n \div 256) % 256, n % 256>>

\* emit_str: the length as usize, then the bytes
EncodeStr(s) == U64BE(Len(s)) \o s

\* #[derive(RustcEncodable)] struct WALRecord { key, value }
EncodeWALRecord(key, value) == EncodeStr(key) \o EncodeStr(value)

\* encode(&record, SizeLimit::Bounded(limit)): the size is checked first, and
\* a record longer than the limit is an Err(SizeLimit) with nothing encoded
Encode(bytes, limit) ==
    IF Len(bytes) > limit
    THEN [ok |-> FALSE, err |-> "SizeLimit", bytes |-> <<>>]
    ELSE [ok |-> TRUE, err |-> "none", bytes |-> bytes]

\* A read of the decoder: ok, the value read and the offset (0-based) after it.
Fail == [ok |-> FALSE, val |-> <<>>, pos |-> 0]

\* a u64 of 2^24 or more: larger than every buffer of the model
Huge == -1

ReadU64(buf, pos) ==
    IF pos + 8 > Len(buf) THEN [ok |-> FALSE, val |-> 0, pos |-> 0]
    ELSE [ok |-> TRUE,
          val |-> IF \E i \in 1..5 : buf[pos + i] # 0 THEN Huge
                  ELSE buf[pos + 6] * 65536 + buf[pos + 7] * 256 + buf[pos + 8],
          pos |-> pos + 8]

ReadU32(buf, pos) ==
    IF pos + 4 > Len(buf) THEN [ok |-> FALSE, val |-> 0, pos |-> 0]
    ELSE [ok |-> TRUE,
          val |-> IF buf[pos + 1] # 0 THEN Huge
                  ELSE buf[pos + 2] * 65536 + buf[pos + 3] * 256 + buf[pos + 4],
          pos |-> pos + 4]

\* str::from_utf8: the well-formed UTF-8 byte sequences
IsCont(b) == b >= 128 /\ b <= 191

RECURSIVE Utf8From(_, _)
Utf8From(s, i) ==
    IF i > Len(s) THEN TRUE
    ELSE LET b == s[i]
             has(n) == i + n <= Len(s)
         IN  IF b < 128 THEN Utf8From(s, i + 1)
             ELSE IF b >= 194 /\ b <= 223
             THEN has(1) /\ IsCont(s[i + 1]) /\ Utf8From(s, i + 2)
             ELSE IF b >= 224 /\ b <= 239
             THEN /\ has(2)
                  /\ IsCont(s[i + 1]) /\ IsCont(s[i + 2])
                  /\ (b = 224 => s[i + 1] >= 160)
                  /\ (b = 237 => s[i + 1] <= 159)
                  /\ Utf8From(s, i + 3)
             ELSE IF b >= 240 /\ b <= 244
             THEN /\ has(3)
                  /\ IsCont(s[i + 1]) /\ IsCont(s[i + 2]) /\ IsCont(s[i + 3])
                  /\ (b = 240 => s[i + 1] >= 144)
                  /\ (b = 244 => s[i + 1] <= 143)
                  /\ Utf8From(s, i + 4)
             ELSE FALSE

from_utf8(s) == Utf8From(s, 1)

\* read_str: the length, that many bytes, and they must be UTF-8
ReadStr(buf, pos) ==
    LET n == ReadU64(buf, pos)
    IN  IF ~n.ok \/ n.val = Huge THEN Fail
        ELSE IF n.pos + n.val > Len(buf) THEN Fail
        ELSE LET s == SubSeq(buf, n.pos + 1, n.pos + n.val)
             IN  IF from_utf8(s)
                 THEN [ok |-> TRUE, val |-> s, pos |-> n.pos + n.val]
                 ELSE Fail

\* decode::<WALRecord<K,V>>(&buff): the key, then the value; what follows
\* them in the buffer (the padding) is not read
DecodeWALRecord(buf) ==
    LET k == ReadStr(buf, 0)
        v == IF k.ok THEN ReadStr(buf, k.pos) ELSE Fail
    IN  [ok |-> k.ok /\ v.ok, key |-> k.val, value |-> v.val]

\* #[derive(RustcEncodable)] enum Payload { Value(V), Children([(K,u64); 32]) }
\* and struct Node { key, parent, payload }: the variant's index as u32, then
\* its field; an array is a sequence, its length written first
ValuePayload(v) == [tag |-> "Value", value |-> v, children |-> <<>>]

ChildrenPayload(c) == [tag |-> "Children", value |-> <<>>, children |-> c]

RECURSIVE EncodeChildren(_)
EncodeChildren(c) ==
    IF c = <<>> THEN <<>>
    ELSE EncodeStr(c[1][1]) \o U64BE(c[1][2]) \o EncodeChildren(Tail(c))

EncodePayload(p) ==
    IF p.tag = "Value" THEN U32BE(0) \o EncodeStr(p.value)
    ELSE U32BE(1) \o U64BE(Len(p.children)) \o EncodeChildren(p.children)

EncodeNode(n) == EncodeStr(n.key) \o U64BE(n.parent) \o EncodePayload(n.payload)

\* the n (key, offset) pairs of a Children array, read from offset pos
RECURSIVE ReadChildren(_, _, _)
ReadChildren(buf, pos, n) ==
    IF n = 0 THEN [ok |-> TRUE, val |-> <<>>, pos |-> pos]
    ELSE LET k == ReadStr(buf, pos)
             o == IF k.ok THEN ReadU64(buf, k.pos) ELSE Fail
             r == IF o.ok THEN ReadChildren(buf, o.pos, n - 1) ELSE Fail
         IN  IF r.ok
             THEN [ok |-> TRUE, val |-> <<<<k.val, o.val>>>> \o r.val, pos |-> r.pos]
             ELSE Fail

ReadPayload(buf, pos) ==
    LET t == ReadU32(buf, pos)
    IN  IF ~t.ok THEN Fail
        ELSE IF t.val = 0
        THEN LET v == ReadStr(buf, t.pos)
             IN  IF v.ok THEN [ok |-> TRUE, val |-> ValuePayload(v.val), pos |-> v.pos]
                 ELSE Fail
        ELSE IF t.val = 1
        THEN LET n == ReadU64(buf, t.pos)
                 c == IF n.ok /\ n.val = NUM_CHILDREN
                      THEN ReadChildren(buf, n.pos, NUM_CHILDREN) ELSE Fail
             IN  IF c.ok THEN [ok |-> TRUE, val |-> ChildrenPayload(c.val), pos |-> c.pos]
                 ELSE Fail
        ELSE Fail

\* decode::<Node<K,V>>(&buff[..])
DecodeNode(buf) ==
    LET k == ReadStr(buf, 0)
        p == IF k.ok THEN ReadU64(buf, k.pos) ELSE Fail
        y == IF p.ok THEN ReadPayload(buf, p.pos) ELSE Fail
    IN  IF y.ok
        THEN [ok |-> TRUE, node |-> [key |-> k.val, parent |-> p.val, payload |-> y.val]]
        ELSE [ok |-> FALSE, node |-> <<>>]

\* ------------------------------------------------------------------- state

VARIABLES
    tree_disk,        \* the data file on disk: None, or Some(its bytes)
    wal_disk,         \* the file <path>.wal on disk: None, or Some(its bytes)
    live,             \* live[i]: handle i exists (new returned it, not dropped);
                      \* the fields of a handle that is not live are the ones
                      \* it had when it was dropped, and no call reads them
    wal_file,         \* wal_file[i]: the position of handle i's WAL File
    root,             \* root[i]: Option<Node<K,V>>
    max_key_size,     \* max_key_size[i]
    max_value_size,   \* max_value_size[i]
    mem_tree,         \* mem_tree[i]: the overlay, a map key -> set of values
    pending,          \* pending[i]: Some(<<key, value>>) inside insert, after
                      \* write_all and before the overlay is changed
    result,           \* what the last call returned
    cfg,              \* the <<max_key_size, max_value_size>> the caller opens with
    ok_log,           \* the pairs whose insert returned Ok, in call order
    wal_log,          \* the pairs whose write_all completed, in call order
    replay,           \* the call of new under way, when new is followed one
                      \* iteration of its replay loop at a time
    faults            \* the number of write_all calls that returned an error

vars == <<tree_disk, wal_disk, live, wal_file, root, max_key_size,
          max_value_size, mem_tree, pending, result, cfg, ok_log, wal_log,
          replay, faults>>

disk == <<tree_disk, wal_disk>>
handles == <<live, wal_file, root, max_key_size, max_value_size, mem_tree, pending>>
logs == <<ok_log, wal_log>>

\* the last call: its name, the value it returned, Ok(val) or Err(err), the
\* sizes (new's arguments, the handle's for the other calls), and for new the
\* branch it returned from
Res(op, ok, err, val, mk, mv, branch) ==
    [op |-> op, ok |-> ok, err |-> err, val |-> val, mk |-> mk, mv |-> mv,
     branch |-> branch]

NoResult == Res("none", TRUE, "none", 0, 0, 0, "none")

\* a call of new followed step by step: where it is (idle: no such call; loop:
\* in the replay loop; done: the loop was skipped or left by break; failed: an
\* error left it), the types K and V, the sizes, the WAL position, the overlay
\* built so far, the error, and whether the loop has made an odd number of
\* iterations
Replaying(status, type, mk, mv, pos, tree, err, odd) ==
    [status |-> status, type |-> type, mk |-> mk, mv |-> mv, pos |-> pos,
     tree |-> tree, err |-> err, odd |-> odd]

NoReplay == Replaying("idle", "none", 0, 0, 0, <<>>, "none", FALSE)

\* the bytes of a file that may not exist: OpenOptions::create(true) makes
\* a missing file an empty one
Bytes(f) == IF f = None THEN <<>> ELSE f[1]

\* BTreeMap::<K, BTreeSet<V>>::new()
EmptyTree == <<>>

\* mutant of MemInsert: the key's entry is replaced by the new value alone
\* (a map insert in place of entry().or_insert().insert())
MemInsertOverwrite(tree, key, value) ==
    [k \in DOMAIN tree \cup {key} |-> IF k = key THEN {value} ELSE tree[k]]

\* mem_tree.entry(key).or_insert(BTreeSet::new()).insert(value)
MemInsert(tree, key, value) ==
    IF key \in DOMAIN tree THEN [tree EXCEPT ![key] = @ \cup {value}]
    ELSE tree @@ (key :> {value})

\* a write of buf at offset pos of a file: the bytes under it are replaced
\* and the file grows to hold it
WriteAt(bytes, pos, buf) ==
    [j \in 1..Max(Len(bytes), pos + Len(buf)) |->
        IF j > pos /\ j <= pos + Len(buf) THEN buf[j - pos]
        ELSE IF j <= Len(bytes) THEN bytes[j] ELSE 0]

\* ---------------------------------------------------------------- BTree::new

\* mutant of Replay: the loop ends one record early (the last record of the
\* file is not replayed)
RECURSIVE ReplaySkipsLast(_, _, _, _)
ReplaySkipsLast(wal, record_size, pos, tree) ==
    IF Len(wal) - pos <= record_size
    THEN [ok |-> TRUE, err |-> "none", tree |-> tree, pos |-> Len(wal)]
    ELSE LET record == DecodeWALRecord(SubSeq(wal, pos + 1, pos + record_size))
         IN  IF ~record.ok
             THEN [ok |-> FALSE, err |-> "DecodeError", tree |-> tree, pos |-> pos + record_size]
             ELSE ReplaySkipsLast(wal, record_size, pos + record_size,
                                  MemInsert(tree, record.key, record.value))

\* the replay loop of new over the WAL bytes, from offset pos: read_exact of
\* record_size bytes, decode, add to the overlay.  A read_exact that finds
\* fewer than record_size bytes left is an UnexpectedEof, which breaks the loop
\* (it has consumed what was left: the position is the end of the file).
RECURSIVE Replay(_, _, _, _)
Replay(wal, record_size, pos, tree) ==
    IF Len(wal) - pos < record_size
    THEN [ok |-> TRUE, err |-> "none", tree |-> tree, pos |-> Len(wal)]
    ELSE LET record == DecodeWALRecord(SubSeq(wal, pos + 1, pos + record_size))
         IN  IF ~record.ok
             THEN [ok |-> FALSE, err |-> "DecodeError", tree |-> tree, pos |-> pos + record_size]
             ELSE Replay(wal, record_size, pos + record_size,
                         MemInsert(tree, record.key, record.value))

\* the size of an on-disk Node
NodeSize(mk, mv) == mk + SizeOfU64 + Max(mv, (mk + SizeOfU64) * NUM_CHILDREN)

\* mutant of ReadLast: the node is read right after the header
ReadAfterHeader(bytes, n) == SubSeq(bytes, 9, 8 + n)

\* seek(SeekFrom::End(-n)) followed by read_exact of n bytes
ReadLast(bytes, n) == SubSeq(bytes, Len(bytes) - n + 1, Len(bytes))

\* mutant of ReplayWal: the file is back at its start once replayed
ReplayWalRewinds(wal, record_size) ==
    IF Len(wal) # 0
    THEN [Replay(wal, record_size, 0, EmptyTree) EXCEPT !.pos = 0]
    ELSE [ok |-> TRUE, err |-> "none", tree |-> EmptyTree, pos |-> 0]

\* the replay of new: skipped when the WAL file is empty (or was just created)
ReplayWal(wal, record_size) ==
    IF Len(wal) # 0 THEN Replay(wal, record_size, 0, EmptyTree)
    ELSE [ok |-> TRUE, err |-> "none", tree |-> EmptyTree, pos |-> 0]

\* mutant of OpenCreate: the file is opened with truncate(true)
OpenTruncate(file) == Some(<<>>)

\* OpenOptions::new().read(true).write(true).create(true).open(..): a missing
\* file is created empty, an existing one is left as it is (no truncate)
OpenCreate(file) == Some(Bytes(file))

\* mutant of NewFileBytes: the version byte is not written
HeaderOnly == FILE_HEADER

\* the bytes new writes to an empty data file: the header, then the version
NewFileBytes == FILE_HEADER \o <<CURRENT_VERSION>>

\* what new returns once the WAL is replayed, and the data file it leaves
TreeOutcome(ok, err, branch, tree, r) ==
    [ok |-> ok, err |-> err, branch |-> branch, tree |-> tree, root |-> r]

\* The data file part of new: the file is opened (created if missing); an
\* empty file gets the header and the version; any other file has its first
\* 8 bytes read and checked, and its last node_size bytes decoded as the root
\* when it is long enough to hold a node after the header.
OpenTree(file, node_size) ==
    LET tree == OpenCreate(file)
        tree0 == Bytes(tree)
        d == DecodeNode(ReadLast(tree0, node_size))
    IN  IF Len(tree0) = 0
        THEN TreeOutcome(TRUE, "none", "created", Some(NewFileBytes), None)
        ELSE IF Len(tree0) < 8
        THEN TreeOutcome(FALSE, "UnexpectedEof", "header", tree, None)
        ELSE IF ~from_utf8(SubSeq(tree0, 1, Len(FILE_HEADER)))
        THEN TreeOutcome(FALSE, "Utf8Error", "header", tree, None)
        ELSE IF \/ SubSeq(tree0, 1, Len(FILE_HEADER)) # FILE_HEADER
                \/ tree0[Len(FILE_HEADER) + 1] # CURRENT_VERSION
        THEN TreeOutcome(FALSE, "InvalidData", "header", tree, None)
        ELSE IF Len(tree0) < 8 + node_size
        THEN TreeOutcome(TRUE, "none", "noroot", tree, None)
        ELSE IF ~d.ok
        THEN TreeOutcome(FALSE, "DecodeError", "root", tree, None)
        ELSE TreeOutcome(TRUE, "none", "root", tree, Some(d.node))

\* new, given what the replay of the WAL (rep) and the opening of the data
\* file (t) come to: a replay error returns before the data file is opened
NewApply(i, mk, mv, rep, t) ==
    /\ wal_disk' = OpenCreate(wal_disk)
    /\ IF ~rep.ok
       THEN /\ result' = Res("new", FALSE, rep.err, 0, mk, mv, "wal")
            /\ UNCHANGED <<tree_disk, handles>>
       ELSE /\ tree_disk' = t.tree
            /\ result' = Res("new", t.ok, t.err, 0, mk, mv, t.branch)
            /\ IF t.ok
               THEN /\ live' = [live EXCEPT ![i] = TRUE]
                    /\ wal_file' = [wal_file EXCEPT ![i] = rep.pos]
                    /\ root' = [root EXCEPT ![i] = t.root]
                    /\ max_key_size' = [max_key_size EXCEPT ![i] = mk]
                    /\ max_value_size' = [max_value_size EXCEPT ![i] = mv]
                    /\ mem_tree' = [mem_tree EXCEPT ![i] = rep.tree]
                    /\ UNCHANGED pending
               ELSE UNCHANGED handles

\* BTree::new(path, mk, mv), returning handle i
New(i, mk, mv) ==
    /\ ~live[i]
    /\ NewApply(i, mk, mv, ReplayWal(Bytes(wal_disk), mk + mv),
                OpenTree(tree_disk, NodeSize(mk, mv)))
    /\ UNCHANGED <<logs, replay, faults>>

\* the types K and V of a BTree<K,V>: String and u8, as in the tests, and the
\* unit type (), which is Ord + Encodable + Decodable as KeyType asks
Types == {"String", "u8", "Unit"}

\* decode::<WALRecord<K,V>>(&buff) with K = V = type: a u8 is one byte, and a
\* () is no byte at all (read_nil reads nothing)
DecodeRecordAs(type, buf) ==
    IF type = "String" THEN DecodeWALRecord(buf)
    ELSE IF type = "u8"
    THEN IF Len(buf) >= 2
         THEN [ok |-> TRUE, key |-> <<buf[1]>>, value |-> <<buf[2]>>]
         ELSE [ok |-> FALSE, key |-> <<>>, value |-> <<>>]
    ELSE [ok |-> TRUE, key |-> <<>>, value |-> <<>>]

\* new up to the replay loop: the WAL file is opened (created if missing), and
\* the loop is entered when the file is not empty
NewBegin(i, type) ==
    /\ ~live[i] /\ replay.status = "idle"
    /\ wal_disk' = OpenCreate(wal_disk)
    /\ replay' = Replaying(IF Len(Bytes(wal_disk)) # 0 THEN "loop" ELSE "done",
                           type, cfg[1], cfg[2], 0, EmptyTree, "none", FALSE)
    /\ UNCHANGED <<tree_disk, handles, result, logs, cfg, faults>>

\* one iteration of the replay loop: read_exact fills a buffer of record_size
\* bytes (a buffer of no bytes is filled at once, at any position); with fewer
\* bytes left it returns UnexpectedEof and the loop breaks; a chunk that does
\* not decode returns the error; a decoded record goes to the overlay and the
\* loop goes on
ReplayIter ==
    /\ replay.status = "loop"
    /\ LET record_size == replay.mk + replay.mv
           wal == Bytes(wal_disk)
           record == DecodeRecordAs(replay.type,
                         SubSeq(wal, replay.pos + 1, replay.pos + record_size))
       IN  replay' =
               IF Len(wal) - replay.pos < record_size
               THEN [replay EXCEPT !.status = "done", !.pos = Len(wal),
                                   !.odd = ~@]
               ELSE IF ~record.ok
               THEN [replay EXCEPT !.status = "failed", !.err = "DecodeError",
                                   !.pos = @ + record_size, !.odd = ~@]
               ELSE [replay EXCEPT !.pos = @ + record_size,
                                   !.tree = MemInsert(@, record.key, record.value),
                                   !.odd = ~@]
    /\ UNCHANGED <<disk, handles, result, logs, cfg, faults>>

\* new from the end of the replay loop: the error is returned, or the data
\* file is opened and checked and the handle returned
NewEnd(i) ==
    /\ replay.status \in {"done", "failed"}
    /\ NewApply(i, replay.mk, replay.mv,
                [ok |-> replay.status = "done", err |-> replay.err,
                 tree |-> replay.tree, pos |-> replay.pos],
                OpenTree(tree_disk, NodeSize(replay.mk, replay.mv)))
    /\ replay' = NoReplay
    /\ UNCHANGED <<logs, cfg, faults>>

\* ------------------------------------------------------------- BTree::insert

\* mutant of InsertBuff: the encoded record is written without its padding
InsertBuffUnpadded(i, key, value) ==
    Encode(EncodeWALRecord(key, value), max_key_size[i] + max_value_size[i])

\* mutant of InsertBuff: a record longer than record_size is cut to
\* record_size instead of being refused
InsertBuffTruncating(i, key, value) ==
    LET record_size == max_key_size[i] + max_value_size[i]
        bytes == EncodeWALRecord(key, value)
    IN  [ok |-> TRUE, err |-> "none",
         bytes |-> IF Len(bytes) > record_size THEN SubSeq(bytes, 1, record_size)
                   ELSE bytes \o Zeros(record_size - Len(bytes))]

\* the record insert writes: encoded within record_size bytes, then padded
\* with zeros to record_size
InsertBuff(i, key, value) ==
    LET record_size == max_key_size[i] + max_value_size[i]
        buff == Encode(EncodeWALRecord(key, value), record_size)
    IN  IF ~buff.ok THEN buff
        ELSE IF Len(buff.bytes) > max_key_size[i] + max_value_size[i]
        THEN [ok |-> FALSE, err |-> "InvalidData", bytes |-> <<>>]
        ELSE [ok |-> TRUE, err |-> "none",
              bytes |-> buff.bytes \o Zeros(max_key_size[i] + max_value_size[i] - Len(buff.bytes))]

\* mutant of WalWrite: the file is open in append mode, every write goes to
\* the end of the file
WalWriteAppends(i, buff) ==
    /\ wal_disk' = Some(Bytes(wal_disk) \o buff)
    /\ wal_file' = [wal_file EXCEPT ![i] = Len(Bytes(wal_disk)) + Len(buff)]

\* self.wal_file.write_all(&buff): at the handle's position, which advances
WalWrite(i, buff) ==
    /\ wal_disk' = Some(WriteAt(Bytes(wal_disk), wal_file[i], buff))
    /\ wal_file' = [wal_file EXCEPT ![i] = @ + Len(buff)]

\* an insert that returns an error before anything is written
InsertErr(i, key, value) ==
    /\ live[i] /\ pending[i] = None
    /\ ~InsertBuff(i, key, value).ok
    /\ result' = Res("insert", FALSE, InsertBuff(i, key, value).err, 0,
                     max_key_size[i], max_value_size[i], "none")
    /\ UNCHANGED <<disk, handles, logs, cfg, replay, faults>>

\* an insert that returns Ok(buff.len())
InsertOk(i, key, value) ==
    /\ live[i] /\ pending[i] = None
    /\ InsertBuff(i, key, value).ok
    /\ Len(wal_log) < MaxInserts
    /\ LET buff == InsertBuff(i, key, value).bytes
       IN  /\ WalWrite(i, buff)
           /\ mem_tree' = [mem_tree EXCEPT ![i] = MemInsert(@, key, value)]
           /\ result' = Res("insert", TRUE, "none", Len(buff),
                            max_key_size[i], max_value_size[i], "none")
    /\ ok_log' = Append(ok_log, <<key, value>>)
    /\ wal_log' = Append(wal_log, <<key, value>>)
    /\ UNCHANGED <<tree_disk, live, root, max_key_size, max_value_size, pending,
                   cfg, replay, faults>>

Insert(i, key, value) == InsertErr(i, key, value) \/ InsertOk(i, key, value)

\* mutant of InsertWrite: the overlay is changed first, the WAL not yet written
InsertOverlayFirst(i, key, value) ==
    /\ live[i] /\ pending[i] = None
    /\ InsertBuff(i, key, value).ok
    /\ Len(wal_log) < MaxInserts
    /\ mem_tree' = [mem_tree EXCEPT ![i] = MemInsert(@, key, value)]
    /\ pending' = [pending EXCEPT ![i] = Some(<<key, value>>)]
    /\ wal_log' = Append(wal_log, <<key, value>>)
    /\ UNCHANGED <<disk, live, wal_file, root, max_key_size, max_value_size,
                   result, ok_log, cfg, replay, faults>>

\* insert up to the end of write_all: the record is in the WAL, the overlay
\* does not hold the pair yet
InsertWrite(i, key, value) ==
    /\ live[i] /\ pending[i] = None
    /\ InsertBuff(i, key, value).ok
    /\ Len(wal_log) < MaxInserts
    /\ WalWrite(i, InsertBuff(i, key, value).bytes)
    /\ pending' = [pending EXCEPT ![i] = Some(<<key, value>>)]
    /\ wal_log' = Append(wal_log, <<key, value>>)
    /\ UNCHANGED <<tree_disk, live, root, max_key_size, max_value_size, mem_tree,
                   result, ok_log, cfg, replay, faults>>

\* the rest of insert: the overlay takes the pair and Ok(buff.len()) is returned
InsertApply(i) ==
    /\ live[i] /\ pending[i] # None
    /\ LET key == pending[i][1][1]
           value == pending[i][1][2]
       IN  /\ mem_tree' = [mem_tree EXCEPT ![i] = MemInsert(@, key, value)]
           /\ result' = Res("insert", TRUE, "none",
                            max_key_size[i] + max_value_size[i],
                            max_key_size[i], max_value_size[i], "none")
           /\ ok_log' = Append(ok_log, <<key, value>>)
    /\ pending' = [pending EXCEPT ![i] = None]
    /\ UNCHANGED <<disk, live, wal_file, root, max_key_size, max_value_size,
                   wal_log, cfg, replay, faults>>

\* the numbers of bytes of a buffer of len bytes that write_all may have
\* written when it returns an error: none, the first, all but the last
WrittenBeforeError(len) == {n \in {0, 1, len - 1} : n >= 0 /\ n < len}

\* an insert whose write_all returns an I/O error (disk full, file size limit,
\* device error): write_all calls write until the buffer is written, and the
\* bytes of the calls that succeeded before the failing one stay in the file,
\* the position after them; try! returns the error, the overlay untouched
InsertIoErr(i, key, value) ==
    /\ live[i] /\ pending[i] = None
    /\ InsertBuff(i, key, value).ok
    /\ faults < MaxFaults
    /\ \E n \in WrittenBeforeError(Len(InsertBuff(i, key, value).bytes)) :
           WalWrite(i, SubSeq(InsertBuff(i, key, value).bytes, 1, n))
    /\ faults' = faults + 1
    /\ result' = Res("insert", FALSE, "IoError", 0,
                     max_key_size[i], max_value_size[i], "none")
    /\ UNCHANGED <<tree_disk, live, root, max_key_size, max_value_size, mem_tree,
                   pending, logs, cfg, replay>>

\* ------------------------------------------------------------ BTree::compact

\* mutant of Compact: the WAL is reset
CompactTruncates(i) ==
    /\ live[i] /\ pending[i] = None
    /\ wal_disk' = Some(<<>>)
    /\ wal_file' = [wal_file EXCEPT ![i] = 0]
    /\ result' = Res("compact", TRUE, "none", 0,
                     max_key_size[i], max_value_size[i], "none")
    /\ UNCHANGED <<tree_disk, live, root, max_key_size, max_value_size, mem_tree,
                   pending, logs, cfg, replay, faults>>

\* mutant of Compact: the overlay is merged into the data file, as a node
\* appended to it that becomes the cached root, and the overlay is emptied
CompactMerges(i) ==
    /\ live[i] /\ pending[i] = None
    /\ LET node == [key |-> <<>>, parent |-> 0, payload |-> ValuePayload(<<>>)]
           slot == EncodeNode(node)
                       \o Zeros(NodeSize(max_key_size[i], max_value_size[i])
                                    - Len(EncodeNode(node)))
       IN  /\ tree_disk' = Some(Bytes(tree_disk) \o slot)
           /\ root' = [root EXCEPT ![i] = Some(node)]
    /\ mem_tree' = [mem_tree EXCEPT ![i] = EmptyTree]
    /\ result' = Res("compact", TRUE, "none", 0,
                     max_key_size[i], max_value_size[i], "none")
    /\ UNCHANGED <<wal_disk, live, wal_file, max_key_size, max_value_size,
                   pending, logs, cfg, replay, faults>>

\* fn compact(&mut self) { }: the body is empty
Compact(i) ==
    /\ live[i] /\ pending[i] = None
    /\ result' = Res("compact", TRUE, "none", 0,
                     max_key_size[i], max_value_size[i], "none")
    /\ UNCHANGED <<disk, handles, logs, cfg, replay, faults>>

\* ------------------------------------------------------------------ drop

\* the handle goes out of scope: its files are closed, and nothing is
\* written (a File has no buffer to flush)
Gone(i) ==
    /\ live' = [live EXCEPT ![i] = FALSE]
    /\ pending' = [pending EXCEPT ![i] = None]
    /\ UNCHANGED <<wal_file, root, max_key_size, max_value_size, mem_tree>>

Drop(i) ==
    /\ live[i] /\ pending[i] = None
    /\ Gone(i)
    /\ result' = Res("drop", TRUE, "none", 0, 0, 0, "none")
    /\ UNCHANGED <<disk, ok_log, wal_log, cfg, replay, faults>>

\* the process dies inside insert, between write_all and the overlay's change
Crash(i) ==
    /\ live[i] /\ pending[i] # None
    /\ Gone(i)
    /\ result' = Res("crash", TRUE, "none", 0, 0, 0, "none")
    /\ UNCHANGED <<disk, ok_log, wal_log, cfg, replay, faults>>

\* ---------------------------------------------------------- specifications

NoHandles ==
    /\ live = [i \in Instances |-> FALSE]
    /\ wal_file = [i \in Instances |-> 0]
    /\ root = [i \in Instances |-> None]
    /\ max_key_size = [i \in Instances |-> 0]
    /\ max_value_size = [i \in Instances |-> 0]
    /\ mem_tree = [i \in Instances |-> EmptyTree]
    /\ pending = [i \in Instances |-> None]
    /\ result = NoResult
    /\ ok_log = <<>>
    /\ wal_log = <<>>
    /\ replay = NoReplay
    /\ faults = 0

\* a path where neither file exists, and the sizes the caller will use
Init ==
    /\ tree_disk = None
    /\ wal_disk = None
    /\ cfg \in SizePairs
    /\ NoHandles

\* new with the sizes the path was created with
NewSame(i) == New(i, cfg[1], cfg[2]) /\ UNCHANGED cfg

\* One handle at a time on the path: new (create or reopen, same sizes),
\* insert, compact, drop.
Next ==
    \/ NewSame(1)
    \/ \E key \in Strings, value \in Strings : Insert(1, key, value)
    \/ Compact(1)
    \/ Drop(1)

Spec == Init /\ [][Next]_vars

\* One handle at a time, and the process may die inside insert once write_all
\* has returned: the insert is two steps, with Crash possible between them.
NextCrash ==
    \/ NewSame(1)
    \/ \E key \in Strings, value \in Strings :
           InsertErr(1, key, value) \/ InsertWrite(1, key, value)
    \/ InsertApply(1)
    \/ Crash(1)
    \/ Compact(1)
    \/ Drop(1)

SpecCrash == Init /\ [][NextCrash]_vars

\* new with any of the sizes, whatever the path was created with
NewAny(i) == \E s \in SizePairs : New(i, s[1], s[2]) /\ cfg' = s

\* One handle at a time, reopened with sizes that may differ from the ones
\* the files were written with (new does not check them).
NextResize ==
    \/ NewAny(1)
    \/ \E key \in Strings, value \in Strings : Insert(1, key, value)
    \/ Drop(1)

SpecResize == Init /\ [][NextResize]_vars

\* a successful insert through one of the handles that share a path
InsertShared(i, key, value) ==
    /\ Len(ok_log) < MaxShared
    /\ InsertOk(i, key, value)

\* Two handles on the path at once, each made by new with the same sizes: no
\* lock is taken on either file, and each handle has its own File objects,
\* with their own positions.
NextTwo ==
    \/ \E i \in Instances : NewSame(i)
    \/ \E i \in Instances, key \in Strings, value \in Strings :
           InsertShared(i, key, value)
    \/ \E i \in Instances : Drop(i)

SpecTwo == Init /\ [][NextTwo]_vars

\* the (max_key_size, max_value_size) pairs of the replay: new takes any usize
ReplaySizes == {<<0, 0>>, <<1, 1>>, <<8, 9>>}

\* WAL files found on the path: one byte, a record of two u8, the same with a
\* byte more, one and two records of two empty strings, and 17 bytes of 255
ReplayWals ==
    {<<0>>, <<2, 3>>, <<2, 3, 4>>, Zeros(17), Zeros(34), [j \in 1..17 |-> 255]}

\* a path with no data file and maybe a WAL file, written with any sizes and
\* types
InitReplay ==
    /\ cfg \in ReplaySizes
    /\ tree_disk = None
    /\ wal_disk \in {None} \cup {Some(w) : w \in ReplayWals}
    /\ NoHandles

\* new, one iteration of its replay loop at a time, and drop
NextReplay ==
    \/ \E type \in Types : NewBegin(1, type)
    \/ ReplayIter
    \/ NewEnd(1)
    \/ Drop(1)

\* a call of new runs on: it is the caller's thread, nothing suspends it
SpecReplay ==
    InitReplay /\ [][NextReplay]_vars /\ WF_vars(ReplayIter) /\ WF_vars(NewEnd(1))

\* a zero-padded slot of n bytes
PadTo(bytes, n) == bytes \o Zeros(n - Len(bytes))

\* the bytes a data file may hold other than the header's
FillBytes == {0, 2, 65, 195, 255}

\* root nodes: leaves, and an internal node of 32 children
LeafNodes ==
    {[key |-> k, parent |-> q, payload |-> ValuePayload(v)] :
        k \in {<<>>, <<97>>}, q \in {0, 8}, v \in {<<>>, <<98, 99>>}}

InnerNode ==
    [key |-> <<97>>, parent |-> 0,
     payload |-> ChildrenPayload([c \in 1..NUM_CHILDREN |-> <<<<>>, 8 + c>>])]

Nodes == LeafNodes \cup {InnerNode}

Header8 == FILE_HEADER \o <<CURRENT_VERSION>>

\* data files with a damaged or cut header
BadHeaderFiles ==
    {[Header8 EXCEPT ![j] = b] : j \in 1..8, b \in FillBytes}
        \cup {SubSeq(Header8, 1, n) : n \in 1..7}
        \cup {<<195, 169>> \o SubSeq(Header8, 3, 8) \o <<0, 0>>}

\* data files with the header: alone, followed by less than a node, by a node
\* slot (right after the header, or after other bytes), or by a slot that
\* holds no node
GoodHeaderFiles(node_size) ==
    {Header8, Header8 \o Zeros(node_size - 1), Header8 \o [j \in 1..node_size |-> 255]}
        \cup {Header8 \o fill \o PadTo(EncodeNode(n), node_size) :
                 fill \in {<<>>, <<0, 0, 0>>, <<65, 2, 195>>},
                 n \in {m \in Nodes : Len(EncodeNode(m)) <= node_size}}

DataFiles(node_size) ==
    BadHeaderFiles \cup GoodHeaderFiles(node_size)

\* WAL files found beside them: none, an empty one, one record of the sizes
WalFiles(record_size) ==
    {None, Some(<<>>)} \cup
        (IF record_size >= 16
         THEN {Some(PadTo(EncodeWALRecord(<<>>, <<>>), record_size))} ELSE {})

\* a path where somebody left a data file, and maybe a WAL file
InitOpen ==
    /\ cfg \in SizePairs
    /\ tree_disk \in {Some(f) : f \in DataFiles(NodeSize(cfg[1], cfg[2]))}
    /\ wal_disk \in WalFiles(cfg[1] + cfg[2])
    /\ NoHandles

NextOpen ==
    \/ NewSame(1)
    \/ Compact(1)
    \/ Drop(1)

SpecOpen == InitOpen /\ [][NextOpen]_vars

\* a data file with the header and a root: a leaf in the last node_size bytes
RootedFile(node_size) ==
    Header8 \o PadTo(EncodeNode([key |-> <<97>>, parent |-> 0,
                                 payload |-> ValuePayload(<<98, 99>>)]), node_size)

\* a path with no file, or with a data file that holds a root and no WAL
InitRooted ==
    /\ cfg \in SizePairs
    /\ tree_disk \in {None, Some(RootedFile(NodeSize(cfg[1], cfg[2])))}
    /\ wal_disk = None
    /\ NoHandles

\* One handle at a time, on a path whose data file may hold a root.
NextRooted ==
    \/ NewSame(1)
    \/ \E key \in Strings, value \in Strings : Insert(1, key, value)
    \/ Compact(1)
    \/ Drop(1)

SpecRooted == InitRooted /\ [][NextRooted]_vars

\* One handle at a time on a fresh path, and the WAL writes of insert may fail.
NextFault ==
    \/ NewSame(1)
    \/ \E key \in Strings, value \in Strings : Insert(1, key, value)
    \/ \E key \in Strings, value \in Strings : InsertIoErr(1, key, value)
    \/ Drop(1)

SpecFault == Init /\ [][NextFault]_vars

\* ------------------------------------------------------- reading the state

\* the (key, value) pairs an overlay holds
PairsOf(tree) == UNION {{<<k, v>> : v \in tree[k]} : k \in DOMAIN tree}

\* the n-th chunk of width bytes of a file, n from 1
Chunk(bytes, width, n) == SubSeq(bytes, (n - 1) * width + 1, n * width)

\* bytes is one zero-padded record of width bytes holding the pair p
IsRecordOf(bytes, width, p) ==
    /\ Len(bytes) = width
    /\ SubSeq(bytes, 1, 16 + Len(p[1]) + Len(p[2]))
           = U64BE(Len(p[1])) \o p[1] \o U64BE(Len(p[2])) \o p[2]
    /\ \A j \in 17 + Len(p[1]) + Len(p[2]) .. width : bytes[j] = 0

\* --------------------------------------------------------------- claims

\* C1: WAL replay round trip.  On a path created by new and written only by
\* successful inserts, every new that follows a drop (same sizes, no
\* compaction) succeeds, and the overlay of the handle it returns is the
\* overlay the dropped handle held: each pair whose insert succeeded is under
\* its key, and no other key or value is there.
C1_ReplayRoundTrip ==
    [][(result'.op = "new" /\ ~live[1] /\ tree_disk # None) =>
          /\ result'.ok /\ live'[1]
          /\ mem_tree'[1] = mem_tree[1]
          /\ PairsOf(mem_tree'[1]) = Range(ok_log)
          /\ \A k \in DOMAIN mem_tree'[1] : mem_tree'[1][k] # {}]_vars

\* a reopen that replayed three records: one key with two values, another key
C1_Witness ==
    /\ result.op = "new" /\ result.branch = "noroot" /\ live[1]
    /\ Len(ok_log) = 3
    /\ Cardinality(DOMAIN mem_tree[1]) = 2
    /\ \E k \in DOMAIN mem_tree[1] : Cardinality(mem_tree[1][k]) = 2

C3_OversizedNoEffect ==
    [][\A key \in Strings, value \in Strings :
          (/\ Len(EncodeStr(key)) + Len(EncodeStr(value))
                 > max_key_size[1] + max_value_size[1]
           /\ Insert(1, key, value))
          => (/\ result'.op = "insert" /\ ~result'.ok
              /\ wal_disk' = wal_disk
              /\ wal_file' = wal_file
              /\ mem_tree' = mem_tree)]_vars

\* an oversized insert was rejected on a handle whose WAL and overlay hold a pair
C3_Witness ==
    /\ result.op = "insert" /\ ~result.ok
    /\ result.mk + result.mv = 18
    /\ live[1] /\ mem_tree[1] # EmptyTree /\ Len(wal_disk[1]) > 0

\* the overlay of a handle maps each key to exactly the values inserted under
\* it with success
OverlayIsInserted ==
    live[1] =>
        /\ PairsOf(mem_tree[1]) = Range(ok_log)
        /\ DOMAIN mem_tree[1] = {p[1] : p \in Range(ok_log)}
        /\ \A k \in DOMAIN mem_tree[1] :
               mem_tree[1][k] = {p[2] : p \in {q \in Range(ok_log) : q[1] = k}}

\* an insert removes no pair from the overlay, and leaves the overlay as it
\* was when the overlay holds the pair
InsertKeepsPairs ==
    \A key \in Strings, value \in Strings :
        Insert(1, key, value) =>
            /\ PairsOf(mem_tree[1]) \subseteq PairsOf(mem_tree'[1])
            /\ (<<key, value>> \in PairsOf(mem_tree[1])
                   => mem_tree'[1] = mem_tree[1])

\* C4: the overlay maps each key to exactly the values inserted under it with
\* success; an insert never overwrites or removes a pair of the overlay, and
\* an insert of a pair the overlay holds leaves the overlay as it was.
C4_MultiValue == []OverlayIsInserted /\ [][InsertKeepsPairs]_vars

\* a key holds two values and a pair was inserted twice
C4_Witness ==
    /\ live[1] /\ result.op = "insert" /\ result.ok
    /\ Len(ok_log) = 3 /\ ok_log[1] = ok_log[3] /\ ok_log[1] # ok_log[2]
    /\ ok_log[1][1] = ok_log[2][1]
    /\ mem_tree[1][ok_log[1][1]] = {ok_log[1][2], ok_log[2][2]}

\* C5: new on an existing, non-empty data file that does not begin with the
\* 7 header bytes and the version byte 1 returns the InvalidData error
\* ("Invalid BTree file or BTree version"), whatever the file's length and
\* bytes, and returns no handle.
C5_BadHeaderIsInvalidData ==
    [][(/\ result'.op = "new"
        /\ tree_disk # None /\ Len(Bytes(tree_disk)) > 0
        /\ ~(/\ Len(Bytes(tree_disk)) >= 8
             /\ SubSeq(Bytes(tree_disk), 1, 8) = <<66, 43, 84, 114, 101, 101, 0, 1>>))
       => (~result'.ok /\ result'.err = "InvalidData" /\ ~live'[1])]_vars

\* C6: new with sizes >= 1 on a path with neither file succeeds and leaves a
\* data file of the 7 header bytes and the version byte 1, a WAL file of
\* length 0, no cached root and an empty overlay.
C6_FreshCreation ==
    [][(/\ result'.op = "new" /\ tree_disk = None /\ wal_disk = None
        /\ result'.mk >= 1 /\ result'.mv >= 1)
       => (/\ result'.ok /\ live'[1]
           /\ tree_disk' = Some(<<66, 43, 84, 114, 101, 101, 0, 1>>)
           /\ wal_disk' = Some(<<>>)
           /\ root'[1] = None
           /\ mem_tree'[1] = EmptyTree
           /\ max_key_size'[1] = result'.mk /\ max_value_size'[1] = result'.mv)]_vars

\* the handle new returned from its new-file branch
C6_Witness ==
    /\ result.op = "new" /\ result.ok /\ result.branch = "created"
    /\ live[1] /\ Len(tree_disk[1]) = 8 /\ wal_disk = Some(<<>>)

\* C7: new on a path it created, after any number of successful inserts and
\* drops, succeeds and leaves both files byte for byte as they were, the data
\* file 8 bytes long.
C7_ReopenKeepsFiles ==
    [][(result'.op = "new" /\ tree_disk # None) =>
          /\ result'.ok /\ live'[1]
          /\ tree_disk' = tree_disk /\ Len(tree_disk'[1]) = 8
          /\ wal_disk' = wal_disk]_vars

\* a reopen of a path whose WAL holds two records
C7_Witness ==
    /\ result.op = "new" /\ result.branch = "noroot" /\ live[1]
    /\ Len(wal_disk[1]) = 36 /\ Len(tree_disk[1]) = 8
    /\ Len(ok_log) = 2

\* C8: new on a data file with the header and the version returns a handle
\* without a cached root exactly when the file is shorter than 8 + node_size,
\* node_size = max_key_size + 8 + max(max_value_size, (max_key_size + 8) * 32);
\* otherwise the cached root is the node decoded from the file's last node_size
\* bytes, which is the node whose zero-padded encoding those bytes are.
C8_RootLoading ==
    (result.op = "new" /\ result.ok) =>
        LET node_size == result.mk + 8 + Max(result.mv, (result.mk + 8) * 32)
            file == tree_disk[1]
            slot == SubSeq(file, Len(file) - node_size + 1, Len(file))
        IN  /\ live[1]
            /\ root[1] = None <=> Len(file) < 8 + node_size
            /\ Len(file) >= 8 + node_size =>
                /\ DecodeNode(slot).ok
                /\ root[1] = Some(DecodeNode(slot).node)
                /\ \A n \in Nodes :
                       slot = EncodeNode(n) \o Zeros(node_size - Len(EncodeNode(n)))
                           => root[1] = Some(n)

\* the root of 32 children, read from a slot that does not follow the header
\* directly
C8_Witness ==
    /\ result.op = "new" /\ result.ok /\ result.branch = "root"
    /\ root[1] = Some(InnerNode)
    /\ Len(tree_disk[1]) = 8 + 3 + 561

\* C9: the WAL is ahead of the overlay.  In every state of a handle, the state
\* inside insert between write_all and the overlay's change included, each
\* pair of the overlay has its record in the WAL file; and every pair whose
\* write_all completed is in the overlay or is the pair of the insert under
\* way, so that after a crash the overlay new rebuilds holds it.
C9_WalAhead ==
    live[1] =>
        LET width == cfg[1] + cfg[2]
            wal == wal_disk[1]
        IN  /\ \A p \in PairsOf(mem_tree[1]) :
                   \E n \in 1..(Len(wal) \div width) :
                       IsRecordOf(Chunk(wal, width, n), width, p)
            /\ Range(wal_log) \subseteq
                   PairsOf(mem_tree[1]) \cup
                       (IF pending[1] = None THEN {} ELSE {pending[1][1]})
            /\ (result.op = "new" /\ pending[1] = None) =>
                   Range(wal_log) \subseteq PairsOf(mem_tree[1])

\* after a crash inside insert, new rebuilt an overlay holding the pair whose
\* insert never returned
C9_Witness ==
    /\ result.op = "new" /\ live[1]
    /\ \E p \in Range(wal_log) : p \notin Range(ok_log) /\ p \in PairsOf(mem_tree[1])

\* C10: new fails when the WAL file's length is not a multiple of
\* max_key_size + max_value_size (a partial chunk at its end).
C10_PartialChunkFails ==
    [][(/\ result'.op = "new"
        /\ wal_disk # None
        /\ Len(Bytes(wal_disk)) % (result'.mk + result'.mv) # 0)
       => ~result'.ok]_vars

\* the position of a handle's WAL File is the end of the WAL file
PositionAtEnd == live[1] => wal_file[1] = Len(Bytes(wal_disk))

\* a successful insert leaves the bytes the WAL file held where they were and
\* puts its record after them
InsertAppends ==
    \A key \in Strings, value \in Strings :
        (InsertOk(1, key, value) /\ result'.ok) =>
            LET old == Bytes(wal_disk)
                new == Bytes(wal_disk')
                width == max_key_size[1] + max_value_size[1]
            IN  /\ Len(new) = Len(old) + width
                /\ SubSeq(new, 1, Len(old)) = old
                /\ IsRecordOf(SubSeq(new, Len(old) + 1, Len(new)), width,
                              <<key, value>>)

\* C11: inserts append.  After every successful new (fresh creation, reopen
\* with an empty WAL, reopen after a replay) and after every call on the handle
\* it returned, the position of the handle's WAL file is the length of the WAL
\* file; so every successful insert writes its record at the end of the file
\* and leaves the bytes of the records written before unchanged.
C11_InsertsAppend == []PositionAtEnd /\ [][InsertAppends]_vars

\* a reopen replayed two records and left the handle at the end of the file
C11_Witness ==
    /\ result.op = "new" /\ result.ok /\ result.branch = "noroot" /\ live[1]
    /\ Len(ok_log) = 2
    /\ wal_file[1] = 36 /\ Len(wal_disk[1]) = 36

\* C12: when the write_all of insert fails with an I/O error, insert returns
\* that error, the overlay is as it was, and so is the WAL file: the pair has
\* not been recorded in it.
C12_FailedInsertKeepsState ==
    [][\A key \in Strings, value \in Strings :
          InsertIoErr(1, key, value) =>
              /\ result'.op = "insert" /\ ~result'.ok /\ result'.err = "IoError"
              /\ mem_tree' = mem_tree
              /\ wal_disk' = wal_disk]_vars

\* C13: every insert of a pair whose encoding is longer than max_key_size +
\* max_value_size returns the InvalidData error ("Key and value size are too
\* large"): the codec's size-limit error is turned into it.
C13_OversizedIsInvalidData ==
    [][\A key \in Strings, value \in Strings :
          (/\ Len(EncodeStr(key)) + Len(EncodeStr(value))
                 > max_key_size[1] + max_value_size[1]
           /\ Insert(1, key, value))
          => (~result'.ok /\ result'.err = "InvalidData")]_vars

\* a successful insert through a handle that is a record or more before the
\* end of the WAL file (another handle has written since) puts its record in
\* the place of the record at its position: the file does not grow, and that
\* chunk, and no other, now holds the inserted pair's record
WriteLandsOnRecord ==
    \A i \in Instances, key \in Strings, value \in Strings :
        LET width == max_key_size[i] + max_value_size[i]
            old == Bytes(wal_disk)
            new == Bytes(wal_disk')
            at == wal_file[i] \div width + 1
        IN  (/\ result'.op = "insert" /\ result'.ok
             /\ live[i] /\ wal_file[i] + width <= Len(old)
             /\ InsertOk(i, key, value)) =>
                /\ result'.ok
                /\ Len(new) = Len(old)
                /\ IsRecordOf(Chunk(new, width, at), width, <<key, value>>)
                /\ \A n \in 1..(Len(old) \div width) :
                       n # at => Chunk(new, width, n) = Chunk(old, width, n)

\* the WAL file never holds more records than inserts returned Ok
NoMoreRecordsThanInserts ==
    Len(Bytes(wal_disk)) <= (cfg[1] + cfg[2]) * Len(ok_log)

\* C14: two handles on one path are not coordinated.  Each keeps its own
\* position in the WAL file, so a successful insert through a handle that the
\* other handle has written past lands on the other's record and replaces it;
\* the WAL then holds fewer records than inserts returned Ok, and the overlay
\* a later new rebuilds lacks a pair that was inserted with success.
C14_UncoordinatedHandles == []NoMoreRecordsThanInserts /\ [][WriteLandsOnRecord]_vars

\* both handles inserted with success and were dropped; the new that followed
\* rebuilt an overlay without one of the two pairs, which has no record in the WAL
C14_Witness ==
    /\ result.op = "new" /\ result.ok /\ live[1] /\ ~live[2]
    /\ Len(ok_log) = 2
    /\ \E p \in Range(ok_log) :
           /\ p \notin PairsOf(mem_tree[1])
           /\ \A n \in 1..(Len(wal_disk[1]) \div (cfg[1] + cfg[2])) :
                  ~IsRecordOf(Chunk(wal_disk[1], cfg[1] + cfg[2], n),
                              cfg[1] + cfg[2], p)

C17_ConstructionTerminates == (replay.status # "idle") ~> (replay.status = "idle")

\* C18: a call of new that returns an error has created, written and
\* truncated no file: the data file and the WAL file are, after the call, the
\* files they were before it (missing if missing, the same bytes if not).
C18_FailedNewKeepsFiles ==
    [][(result'.op = "new" /\ ~result'.ok) =>
          (tree_disk' = tree_disk /\ wal_disk' = wal_disk)]_vars

====
